---- MODULE Spec2Model ----
(***************************************************************************)
(* Model of src/lib.rs: OrthoProj<T>, a square grid of cells addressed     *)
(* either by pixel (x, y) or by latitude/longitude through an orthographic *)
(* projection.                                                             *)
(*                                                                         *)
(* Number representations                                                  *)
(*   u32 / usize  a machine word is a pair <<hi, lo>> of 16-bit limbs,     *)
(*                value hi * 2^16 + lo.                                    *)
(*                u32 keeps its width (results are reduced modulo 2^32 and *)
(*                the overflow is reported); usize is 64 bits wide and no  *)
(*                value of the model comes near 2^64, so usize results are *)
(*                exact.                                                   *)
(*   f32          a fixed-point number: the integer n stands for n/Scale.  *)
(*                Products are rounded to the nearest multiple of 1/Scale, *)
(*                sin and cos are evaluated by their power series after    *)
(*                range reduction.                                         *)
(***************************************************************************)
EXTENDS Integers, Sequences, FiniteSets, TLC

\* ------------------------------------------------------------------ bounds
MaxSize == 4
BigSize == 65537
MaxWrites == 1

Values == {0, 1}

\* --------------------------------------------------------- machine words
B == 2^16

W(n) == <<n \div B, n % B>>

WLess(a, b) == a[1] < b[1] \/ (a[1] = b[1] /\ a[2] < b[2])

\* hi * 2^16 + lo with the carry of lo moved into hi
WNorm(hi, lo) == <<hi + (lo \div B), lo % B>>

WAdd(a, b) == WNorm(a[1] + b[1], a[2] + b[2])

\* the exact product of two naturals below 2^18, as a word, from the
\* products of their bytes
WMulBytes(m1, m0, n1, n0) ==
    WNorm(m1 * n1 + ((m1 * n0 + m0 * n1) \div 256),
          ((m1 * n0 + m0 * n1) % 256) * 256 + m0 * n0)

WMul(m, n) == WMulBytes(m \div 256, m % 256, n \div 256, n % 256)

\* u32 arithmetic: the result modulo 2^32, and whether the exact result
\* left 0 .. 2^32 - 1
U32(hi, lo, ovf) == [val |-> <<hi % B, lo>>, ovf |-> ovf \/ hi < 0 \/ hi >= B]

U32SubBorrow(a, b, borrow) ==
    U32(a[1] - b[1] - borrow, a[2] - b[2] + borrow * B, FALSE)

U32Sub(a, b) == U32SubBorrow(a, b, IF a[2] < b[2] THEN 1 ELSE 0)

U32AddWide(s) == U32(s[1], s[2], FALSE)

U32Add(a, b) == U32AddWide(WAdd(a, b))

\* a * b = (a.hi * b.hi) * 2^32 + cross * 2^16 + low
U32MulParts(highs, cross, low) ==
    U32(cross[2] + low[1], low[2], highs \/ cross[1] > 0)

U32Mul(a, b) ==
    U32MulParts(a[1] > 0 /\ b[1] > 0,
                WAdd(WMul(a[1], b[2]), WMul(a[2], b[1])),
                WMul(a[2], b[2]))

\* ------------------------------------------------------------------- f32
Scale == 10^4
Pi == 31416

Abs(a) == IF a < 0 THEN 0 - a ELSE a
Sgn(a) == IF a < 0 THEN 0 - 1 ELSE 1

\* n / d rounded to the nearest integer, halves away from zero (d > 0)
RoundDiv(n, d) == Sgn(n) * ((2 * Abs(n) + d) \div (2 * d))

\* the product of two non-negative numbers, sml <= Scale^2 / 2; the split
\* keeps every intermediate value below 2^31
MulAbs(big, sml) == (big \div Scale) * sml + RoundDiv((big % Scale) * sml, Scale)

MulOrdered(p, q) == IF p >= q THEN MulAbs(p, q) ELSE MulAbs(q, p)

FMul(a, b) == Sgn(a) * Sgn(b) * MulOrdered(Abs(a), Abs(b))

\* `n as f32`
FromInt(n) == n * Scale

ToRadiansAbs(a) ==
    RoundDiv((a \div Scale) * Pi, 180) + RoundDiv((a % Scale) * Pi, 180 * Scale)

to_radians(d) == Sgn(d) * ToRadiansAbs(Abs(d))

\* the power series on 0 .. Pi/4, x2 the square of x
SinPoly(x, x2) ==
    FMul(x, Scale - RoundDiv(FMul(x2, Scale - RoundDiv(
            FMul(x2, Scale - RoundDiv(x2, 42)), 20)), 6))

CosPoly(x2) ==
    Scale - RoundDiv(FMul(x2, Scale - RoundDiv(FMul(x2, Scale - RoundDiv(
            FMul(x2, Scale - RoundDiv(x2, 56)), 30)), 12)), 2)

SinSeries(x) == SinPoly(x, FMul(x, x))

CosSeries(x) == CosPoly(FMul(x, x))

\* sin and cos on 0 .. Pi/2
SinQuarter(y) == IF 4 * y > Pi THEN CosSeries(Pi \div 2 - y) ELSE SinSeries(y)

CosQuarter(y) == IF 4 * y > Pi THEN SinSeries(Pi \div 2 - y) ELSE CosSeries(y)

\* sin and cos on 0 .. Pi
SinHalf(x) == SinQuarter(IF 2 * x > Pi THEN Pi - x ELSE x)

CosHalf(x) == IF 2 * x > Pi THEN 0 - CosQuarter(Pi - x) ELSE CosQuarter(x)

\* the argument brought into -Pi .. Pi
Reduce(x) == ((x + Pi) % (2 * Pi)) - Pi

SinReduced(y) == Sgn(y) * SinHalf(Abs(y))

sin(x) == SinReduced(Reduce(x))

cos(x) == CosHalf(Abs(Reduce(x)))

\* `f.trunc() as u32` and `f.trunc() as usize`: towards zero, a negative
\* number saturates to 0
TruncToNat(f) == IF f <= 0 THEN 0 ELSE f \div Scale

\* ------------------------------------------------------------- Vec<T>
\* `vec![default; n]` and its later stores: the length, the value every
\* cell started with, and the cells that now hold another value
VecNew(default, n) == [len |-> n, fill |-> default, upd |-> [i \in {} |-> default]]

VecAt(d, i) == IF i \in DOMAIN d.upd THEN d.upd[i] ELSE d.fill

VecPut(d, i, value) ==
    LET keys == IF value = d.fill THEN DOMAIN d.upd \ {i} ELSE DOMAIN d.upd \cup {i}
    IN  [d EXCEPT !.upd = [k \in keys |-> IF k = i THEN value ELSE d.upd[k]]]

\* ----------------------------------------------------------- OrthoProj
NoVal == 0 - 1

Ok(val) == [kind |-> "ok", x |-> NoVal, y |-> NoVal, val |-> val]
Some(x, y) == [kind |-> "some", x |-> x, y |-> y, val |-> NoVal]
None == [kind |-> "none", x |-> NoVal, y |-> NoVal, val |-> NoVal]
Unit == [kind |-> "unit", x |-> NoVal, y |-> NoVal, val |-> NoVal]
\* panics: an index past the end of _data, an arithmetic overflow in a
\* build with overflow checks
PanicBounds == [kind |-> "index out of bounds", x |-> NoVal, y |-> NoVal, val |-> NoVal]
PanicOverflow == [kind |-> "arithmetic overflow", x |-> NoVal, y |-> NoVal, val |-> NoVal]

IsPanic(res) == res \in {PanicBounds, PanicOverflow}

new(size, lat, lon, default) ==
    [_size |-> size,
     _data |-> VecNew(default, WMul(size, size)),
     _lat |-> to_radians(lat),
     _lon |-> to_radians(lon)]

\* `self._data[i] = value`: the store, or the panic when i is past the
\* end.  The result is the object after the call and what the call returned.
store(self, i, value) ==
    IF WLess(i, self._data.len)
    THEN [res |-> Unit, self |-> [self EXCEPT !._data = VecPut(@, i, value)]]
    ELSE [res |-> PanicBounds, self |-> self]

\* `&self._data[i]`
load(self, i) ==
    IF WLess(i, self._data.len) THEN Ok(VecAt(self._data, i)) ELSE PanicBounds

\* set_pixel: the index is computed in usize
set_pixel(self, x, y, value) ==
    store(self, WAdd(WMul(x, self._size), W(y)), value)

\* get_pixel: the index is computed in u32, then widened
get_pixel_at(self, m, a, checks) ==
    IF checks /\ (m.ovf \/ a.ovf) THEN PanicOverflow ELSE load(self, a.val)

get_pixel_sum(self, m, y, checks) ==
    get_pixel_at(self, m, U32Add(m.val, W(y)), checks)

get_pixel(self, x, y, checks) ==
    get_pixel_sum(self, U32Mul(W(x), W(self._size)), y, checks)

\* xy_for_pos, from the sines and cosines it takes: s0, c0 of self._lat,
\* s, c of lat, sd, cd of lon - self._lon; r is (self._size / 2) as f32
xy_visible(cos_c, x, y) ==
    IF cos_c < 0 THEN None ELSE Some(TruncToNat(x), TruncToNat(y))

\* xy_project without `let y = y + r`
xy_project_untranslated(r, s0, c0, s, c, sd, cd) ==
    xy_visible(FMul(s0, s) + FMul(FMul(c0, c), cd),
               FMul(FMul(r, c), sd) + r,
               FMul(FMul(r, FMul(c0, s) - FMul(FMul(s0, c), cd)), 0 - Scale))

xy_project(r, s0, c0, s, c, sd, cd) ==
    xy_visible(FMul(s0, s) + FMul(FMul(c0, c), cd),
               FMul(FMul(r, c), sd) + r,
               FMul(FMul(r, FMul(c0, s) - FMul(FMul(s0, c), cd)), 0 - Scale) + r)

xy_radians(self, lat, lon) ==
    xy_project(FromInt(self._size \div 2),
               sin(self._lat), cos(self._lat), sin(lat), cos(lat),
               sin(lon - self._lon), cos(lon - self._lon))

xy_for_pos(self, lat, lon) == xy_radians(self, to_radians(lat), to_radians(lon))

\* set_match with the None arm storing at pixel (0, 0)
set_match_none_stores(self, p, value) ==
    IF p = None THEN set_pixel(self, 0, 0, value)
    ELSE set_pixel(self, p.x, p.y, value)

set_match(self, p, value) ==
    IF p = None THEN [res |-> Unit, self |-> self]
    ELSE set_pixel(self, p.x, p.y, value)

set(self, lat, lon, value) == set_match(self, xy_for_pos(self, lat, lon), value)

\* get: x and y as the code computes them, then the index in usize
get_x(self, r, lat, lon) ==
    FMul(FMul(r, cos(to_radians(lat))), sin(to_radians(lon - self._lon)))

get_y(self, r, lat, lon) ==
    FMul(r, FMul(cos(to_radians(self._lon)), sin(to_radians(lat)))
            - FMul(sin(to_radians(self._lon)), cos(to_radians(lon - self._lat))))

get_index(self, r, lat, lon) ==
    WAdd(WMul(TruncToNat(get_x(self, r, lat, lon)), self._size),
         W(TruncToNat(get_y(self, r, lat, lon))))

get(self, lat, lon) ==
    load(self, get_index(self, FromInt(self._size \div 2), lat, lon))

\* new_with_bg: dist2 is computed in u32; with overflow checks a result
\* outside 0 .. 2^32 - 1 panics, without them it wraps
dist2_sum(dx, dy, sx, sy, sum) ==
    [val |-> sum.val, ovf |-> dx.ovf \/ dy.ovf \/ sx.ovf \/ sy.ovf \/ sum.ovf]

dist2_squares(dx, dy, sx, sy) == dist2_sum(dx, dy, sx, sy, U32Add(sx.val, sy.val))

dist2_diffs(dx, dy) ==
    dist2_squares(dx, dy, U32Mul(dx.val, dx.val), U32Mul(dy.val, dy.val))

dist2(x, y, cx, cy) == dist2_diffs(U32Sub(W(x), W(cx)), U32Sub(W(y), W(cy)))

\* the loop `for x in 0..size { for y in 0..size { .. } }` from its k-th
\* iteration on (x = k / size, y = k % size); a panic returns no object
RECURSIVE draw_circle(_, _, _, _, _)

draw_pixel(obj, k, r2, surface, checks, x, y, d) ==
    IF checks /\ d.ovf THEN [res |-> PanicOverflow, self |-> <<>>]
    ELSE draw_circle(IF WLess(r2, d.val) THEN obj
                     ELSE set_pixel(obj, x, y, surface).self,
                     k + 1, r2, surface, checks)

draw_at(obj, k, r2, surface, checks, x, y) ==
    draw_pixel(obj, k, r2, surface, checks, x, y,
               dist2(x, y, obj._size \div 2, obj._size \div 2))

draw_circle(obj, k, r2, surface, checks) ==
    IF k = obj._size * obj._size THEN [res |-> Unit, self |-> <<obj>>]
    ELSE draw_at(obj, k, r2, surface, checks, k \div obj._size, k % obj._size)

new_with_bg_r2(obj, r2, surface, checks) ==
    IF checks /\ r2.ovf THEN [res |-> PanicOverflow, self |-> <<>>]
    ELSE draw_circle(obj, 0, r2.val, surface, checks)

new_with_bg(size, lat, lon, bg, surface, checks) ==
    new_with_bg_r2(new(size, lat, lon, bg),
                   U32Mul(W(size \div 2), W(size \div 2)), surface, checks)

\* ------------------------------------------------------------- inputs
Deg(whole, frac) == whole * Scale + frac

\* projection centres and points, in degrees
Centres == {<<0, 0>>, <<Deg(41, 8989), Deg(12, 4734)>>,
            <<0 - Deg(90, 0), 0 - Deg(180, 0)>>}

Points == {<<0 - Deg(90, 0), Deg(180, 0)>>, <<0 - Deg(89, 9900), 0>>,
           <<Deg(51, 5079), 0 - Deg(0, 1279)>>,
           <<0 - Deg(41, 8989), 0 - Deg(167, 5266)>>}

\* the points a call is made with: Points and the object's own centre
Targets(self) ==
    Points \cup {c \in Centres : to_radians(c[1]) = self._lat
                                  /\ to_radians(c[2]) = self._lon}

\* the pixel coordinates a call is made with: the first and the middle
\* coordinate of the grid and the first one past its end
Coords(size) == {0, size \div 2, size}

\* A grid of side 2^16 is the largest whose every index x * size + y fits
\* in a u32; on a grid of side 2^16 + 1 the last row's indices do not.
WordSizes == {BigSize - 1, BigSize}

WordPoints == {<<0, 0>>, <<0, Deg(89, 9900)>>, <<0 - Deg(89, 9900), 0>>,
               <<0 - Deg(41, 8989), 0 - Deg(167, 5266)>>}

WordCoords(size) == {0, size \div 2, size - 1, size}

\* the arguments of set and of get_pixel on a grid
SetPoints(self) ==
    IF self._size < BigSize - 1 THEN Targets(self) ELSE WordPoints

PixelCoords(size) ==
    IF size < BigSize - 1 THEN Coords(size) ELSE WordCoords(size)

\* -------------------------------------------------------------- state
VARIABLES
    checks,     \* the build has overflow checks (debug profile) or not
    o,          \* <<>> before construction, <<the OrthoProj>> after
    last,       \* the last call: its name, arguments and result
    writes      \* the number of calls of set so far

vars == <<checks, o, last, writes>>

Call(op, args, res) == [op |-> op, args |-> args, res |-> res]

Init ==
    /\ checks \in BOOLEAN
    /\ o = <<>>
    /\ last = Call("none", <<>>, Unit)
    /\ writes = 0

\* a call that returned r = [res, self]: the object and the record of it
Returned(op, args, r, obj) ==
    /\ o' = obj
    /\ last' = Call(op, args, r.res)

New(sizes, centres) ==
    /\ o = <<>>
    /\ \E size \in sizes, c \in centres, default \in Values :
           /\ o' = <<new(size, c[1], c[2], default)>>
           /\ last' = Call("new", <<size, c[1], c[2], default>>, Unit)
    /\ UNCHANGED <<checks, writes>>

NewWithBgCall(args, r) == Returned("new_with_bg", args, r, r.self)

NewWithBg ==
    /\ o = <<>>
    /\ \E size \in 1 .. MaxSize, c \in Centres, bg \in Values, surface \in Values :
           NewWithBgCall(<<size, c[1], c[2], bg, surface>>,
                         new_with_bg(size, c[1], c[2], bg, surface, checks))
    /\ UNCHANGED <<checks, writes>>

XyForPos ==
    /\ o # <<>>
    /\ \E p \in Targets(o[1]) :
           last' = Call("xy_for_pos", p, xy_for_pos(o[1], p[1], p[2]))
    /\ UNCHANGED <<checks, o, writes>>

SetCall(args, r) == Returned("set", args, r, <<r.self>>)

Set ==
    /\ o # <<>>
    /\ writes < MaxWrites
    /\ \E p \in SetPoints(o[1]), value \in Values :
           SetCall(<<p[1], p[2], value>>, set(o[1], p[1], p[2], value))
    /\ writes' = writes + 1
    /\ UNCHANGED checks

Get ==
    /\ o # <<>>
    /\ \E p \in Targets(o[1]) :
           last' = Call("get", p, get(o[1], p[1], p[2]))
    /\ UNCHANGED <<checks, o, writes>>

GetPixel ==
    /\ o # <<>>
    /\ \E x \in PixelCoords(o[1]._size), y \in PixelCoords(o[1]._size) :
           last' = Call("get_pixel", <<x, y>>, get_pixel(o[1], x, y, checks))
    /\ UNCHANGED <<checks, o, writes>>

Next ==
    \/ New(1 .. MaxSize, Centres)
    \/ NewWithBg
    \/ XyForPos
    \/ Set
    \/ Get
    \/ GetPixel

Spec == Init /\ [][Next]_vars

\* ------------------------------------- grids at the edge of 32 bits
NextWord ==
    \/ New(WordSizes, {<<0, 0>>})
    \/ Set
    \/ GetPixel

SpecWord == Init /\ [][NextWord]_vars

\* ------------------------------------------------------------ claims
Built == o # <<>>
Size == o[1]._size

\* the step is a call of op
IsCall(op) == last'.op = op /\ vars' # vars

\* the pixel the last call's latitude and longitude project to
Projected == xy_for_pos(o[1], last.args[1], last.args[2])

\* the last call's latitude and longitude are the centre of the projection
AtCentre ==
    /\ to_radians(last.args[1]) = o[1]._lat
    /\ to_radians(last.args[2]) = o[1]._lon

\* C1: a value written with set(lat, lon, v) at a visible point is what
\* get(lat, lon) returns next.
C1_RoundTrip ==
    [][(/\ last.op = "set"
        /\ Projected # None
        /\ IsCall("get")
        /\ last'.args = <<last.args[1], last.args[2]>>)
       => last'.res = Ok(last.args[3])]_vars

\* C2: get_pixel(x, y) with x >= size or y >= size fails with an
\* out-of-bounds error; it never returns the content of a cell.
C2_BoundsChecked ==
    (last.op = "get_pixel" /\ (last.args[1] >= Size \/ last.args[2] >= Size))
        => last.res = PanicBounds

\* the disc of new_with_bg over the mathematical integers
InDisc(size, x, y) ==
    LET c == size \div 2
    IN  (x - c) * (x - c) + (y - c) * (y - c) <= c * c

\* C3: after new_with_bg(size, lat, lon, bg, surface) every pixel inside
\* the disc of centre (size/2, size/2) and radius size/2 is surface and
\* every other pixel is bg.
C3_DiscFill ==
    last.op = "new_with_bg"
        => /\ Built
           /\ \A x \in 0 .. last.args[1] - 1, y \in 0 .. last.args[1] - 1 :
                  get_pixel(o[1], x, y, checks)
                      = Ok(IF InDisc(last.args[1], x, y) THEN last.args[5]
                                                          ELSE last.args[4])

\* C4: after new_with_bg with bg different from surface the corner pixel
\* (0, 0) carries bg, for every size > 0.
C4_CornerIsBackground ==
    (last.op = "new_with_bg" /\ last.args[4] # last.args[5])
        => (Built /\ get_pixel(o[1], 0, 0, checks) = Ok(last.args[4]))

\* C5: after new(size, lat, lon, default) the buffer has size * size cells
\* and get_pixel(x, y) returns default for every pixel of the grid.
C5_NewFillsDefault ==
    last.op = "new"
        => /\ o[1]._data.len = WMul(Size, Size)
           /\ \A x \in WordCoords(Size) \cup Coords(Size), y \in WordCoords(Size) \cup Coords(Size) :
                  (x < Size /\ y < Size)
                      => get_pixel(o[1], x, y, checks) = Ok(last.args[4])

\* C6: set at a point of the far hemisphere (xy_for_pos is None) returns
\* without error and leaves the cells, the size and the centre as they were.
C6_InvisibleSetIsNoOp ==
    [][(/\ Built
        /\ IsCall("set")
        /\ xy_for_pos(o[1], last'.args[1], last'.args[2]) = None)
       => (last'.res = Unit /\ o' = o)]_vars

C6_Witness ==
    /\ Built
    /\ last.op = "set"
    /\ Projected = None
    /\ last.res = Unit
    /\ last.args[3] # o[1]._data.fill
    /\ DOMAIN o[1]._data.upd = {}

C8_SetOutsideFails ==
    [][(/\ Built
        /\ IsCall("set")
        /\ xy_for_pos(o[1], last'.args[1], last'.args[2]) # None
        /\ \/ xy_for_pos(o[1], last'.args[1], last'.args[2]).x >= Size
           \/ xy_for_pos(o[1], last'.args[1], last'.args[2]).y >= Size)
       => (last'.res = PanicBounds /\ o' = o)]_vars

\* C9: new_with_bg returns a grid for every size > 0, and no step of
\* dist2 leaves 0 .. 2^32 - 1.
C9_ConstructionCompletes ==
    last.op = "new_with_bg"
        => /\ Built
           /\ last.res = Unit
           /\ \A x \in 0 .. last.args[1] - 1, y \in 0 .. last.args[1] - 1 :
                  ~dist2(x, y, last.args[1] \div 2, last.args[1] \div 2).ovf

\* C10: get_pixel(x, y) reads the cell set wrote through set_pixel(x, y, v),
\* also when x * size + y does not fit in 32 bits.
C10_OneIndexFormula ==
    [][(/\ last.op = "set"
        /\ last.res = Unit
        /\ Projected # None
        /\ IsCall("get_pixel")
        /\ last'.args = <<Projected.x, Projected.y>>
        /\ Projected.x < Size
        /\ Projected.y < Size)
       => last'.res = Ok(last.args[3])]_vars

====
